---- MODULE Spec2Model ----
(***************************************************************************)
(* Model of server.js: the Express backend that keeps a Map of pg pools    *)
(* (connections) and serves /api/connect, /api/query, /api/schema and      *)
(* /api/disconnect.  Every handler is an async function: it runs           *)
(* atomically up to its next await, so each action below is one such       *)
(* segment of one handler, and several requests may be suspended at once.  *)
(***************************************************************************)
EXTENDS Integers, Sequences, FiniteSets, Bags

(***************************************************************************)
(* Bounds of the model.                                                    *)
(***************************************************************************)
\* requests that may be suspended at an await at the same time
MaxInFlight == 2
\* pools created by connect calls beyond those held at the start
MaxPools == 2
\* advances of the millisecond clock
MaxTicks == 1
\* termination signals delivered to the process
MaxSignals == 1

(***************************************************************************)
(* Program constants.                                                      *)
(***************************************************************************)
\* connections.size > 100
Capacity == 100

\* Date.now() at the start of the window the model looks at: later than the
\* readings 1..Capacity that named the entries a full registry holds.
StartClock == Capacity + 1

(***************************************************************************)
(* Strings.  A string is a sequence of characters; a character is a        *)
(* one-letter TLA+ string.                                                 *)
(***************************************************************************)
UpperLetters ==
    <<"A","B","C","D","E","F","G","H","I","J","K","L","M",
      "N","O","P","Q","R","S","T","U","V","W","X","Y","Z">>

LowerLetters ==
    <<"a","b","c","d","e","f","g","h","i","j","k","l","m",
      "n","o","p","q","r","s","t","u","v","w","x","y","z">>

\* the white space String.prototype.trim removes (those the inputs use)
WhiteSpace == {" ", "\n", "\t"}

\* String.prototype.toLowerCase on one character
ToLowerChar(c) ==
    IF \E i \in 1..Len(UpperLetters) : UpperLetters[i] = c
    THEN LowerLetters[CHOOSE i \in 1..Len(UpperLetters) : UpperLetters[i] = c]
    ELSE c

\* String.prototype.toLowerCase
ToLowerCase(s) == [i \in 1..Len(s) |-> ToLowerChar(s[i])]

RECURSIVE TrimStart(_)
TrimStart(s) ==
    IF s # <<>> /\ Head(s) \in WhiteSpace THEN TrimStart(Tail(s)) ELSE s

RECURSIVE TrimEnd(_)
TrimEnd(s) ==
    IF s # <<>> /\ s[Len(s)] \in WhiteSpace
    THEN TrimEnd(SubSeq(s, 1, Len(s) - 1))
    ELSE s

\* String.prototype.trim
Trim(s) == TrimEnd(TrimStart(s))

\* String.prototype.startsWith
StartsWith(s, p) == Len(p) <= Len(s) /\ SubSeq(s, 1, Len(p)) = p

\* String.prototype.includes
Includes(s, p) ==
    \E i \in 0..(Len(s) - Len(p)) : SubSeq(s, i + 1, i + Len(p)) = p

RECURSIVE Digits(_)
\* Number.prototype.toString of a positive integer: its decimal digits
Digits(n) == IF n < 10 THEN <<n>> ELSE Append(Digits(n \div 10), n % 10)

(***************************************************************************)
(* The Query Gate of the query handler.                                    *)
(***************************************************************************)
KwSelect == <<"s","e","l","e","c","t">>
KwWith == <<"w","i","t","h">>
KwDrop == <<"d","r","o","p">>
KwDelete == <<"d","e","l","e","t","e">>
KwTruncate == <<"t","r","u","n","c","a","t","e">>
KwAlter == <<"a","l","t","e","r">>
KwCreate == <<"c","r","e","a","t","e">>
KwInsert == <<"i","n","s","e","r","t">>
KwUpdate == <<"u","p","d","a","t","e">>

dangerousKeywords ==
    {KwDrop, KwDelete, KwTruncate, KwAlter, KwCreate, KwInsert, KwUpdate}

\* mutant: the text is trimmed and not lower-cased
trimmedQueryNoFold(query) == Trim(query)

\* const trimmedQuery = query.trim().toLowerCase()
trimmedQuery(query) == ToLowerCase(Trim(query))

\* dangerousKeywords.some((keyword) => trimmedQuery.includes(keyword))
containsDangerous(t) == \E keyword \in dangerousKeywords : Includes(t, keyword)

\* mutant: the keywords are looked for whatever the text starts with
GateRejectsAnywhere(query) == containsDangerous(trimmedQuery(query))

\* TRUE when the handler answers 403 for this text
GateRejects(query) ==
    LET t == trimmedQuery(query)
    IN  /\ ~StartsWith(t, KwSelect)
        /\ ~StartsWith(t, KwWith)
        /\ containsDangerous(t)

(***************************************************************************)
(* The Map `connections`: a sequence of entries in insertion order.        *)
(***************************************************************************)
Entry(k, p) == [id |-> k, pool |-> p]

NoPool == 0

\* Map.prototype.has
MapHas(m, k) == \E i \in 1..Len(m) : m[i].id = k

\* Map.prototype.get; undefined is NoPool
MapGet(m, k) ==
    IF MapHas(m, k)
    THEN m[CHOOSE i \in 1..Len(m) : m[i].id = k].pool
    ELSE NoPool

\* Map.prototype.set: an existing key keeps its place and takes the new value
MapSet(m, k, p) ==
    IF MapHas(m, k)
    THEN [i \in 1..Len(m) |-> IF m[i].id = k THEN Entry(k, p) ELSE m[i]]
    ELSE Append(m, Entry(k, p))

\* Map.prototype.delete
MapDelete(m, k) == SelectSeq(m, LAMBDA e : e.id # k)

\* the place of key k in the insertion order, or one past the end
MapIndex(m, k) ==
    IF MapHas(m, k) THEN CHOOSE i \in 1..Len(m) : m[i].id = k ELSE Len(m) + 1

\* the record of a deletion that removed an entry: the key, and the handler
Removal(m, k, by) == IF MapHas(m, k) THEN {[id |-> k, by |-> by]} ELSE {}

\* mutant: the key inserted last
MapNewestKey(m) == m[Len(m)].id

\* connections.keys().next().value, on a map that is not empty
MapOldestKey(m) == m[1].id

(***************************************************************************)
(* Request inputs.                                                         *)
(***************************************************************************)
\* 'SELECT 1'
TxSelect == <<"S","E","L","E","C","T"," ","1">>
\* ' seLect drop'
TxSelectDrop == <<" ","s","e","L","e","c","t"," ","d","r","o","p">>
\* 'WITH update'
TxWithUpdate == <<"W","I","T","H"," ","u","p","d","a","t","e">>
\* 'withdrop'
TxWithdrop == <<"w","i","t","h","d","r","o","p">>
\* 'DROP t'
TxDrop == <<"D","R","O","P"," ","t">>
\* '\n Update '
TxUpdate == <<"\n"," ","U","p","d","a","t","e"," ">>
\* 'xdeletex'
TxDelete == <<"x","d","e","l","e","t","e","x">>
\* 'explain'
TxExplain == <<"e","x","p","l","a","i","n">>
\* ' '
TxBlank == <<" ">>
\* 'selec insert'
TxSelecInsert == <<"s","e","l","e","c"," ","i","n","s","e","r","t">>
\* 'show created'
TxCreated == <<"s","h","o","w"," ","c","r","e","a","t","e","d">>
\* 'TRUNCATE'
TxTruncate == <<"T","R","U","N","C","A","T","E">>
\* 'Alter'
TxAlter == <<"A","l","t","e","r">>

\* the texts clients submit as `query`
QueryTexts ==
    {<<>>, TxSelect, TxSelectDrop, TxWithUpdate, TxWithdrop,
     TxDrop, TxUpdate, TxDelete, TxExplain,
     TxBlank, TxSelecInsert, TxCreated, TxTruncate,
     TxAlter}

\* a `query` value of the JSON body: a string, or (str = FALSE) a value that
\* is truthy and no string, such as the number 5.  undefined, null and ""
\* are all falsy and take the same branches: they are the empty string here.
QueryValue(isString, chars) == [str |-> isString, chars |-> chars]

NoQuery == QueryValue(TRUE, <<>>)

\* an error string of a response body that is fixed text
Msg(text) == <<text, "">>

NoError == <<>>

QueryInputs ==
    {QueryValue(TRUE, t) : t \in QueryTexts} \cup {QueryValue(FALSE, <<>>)}

\* one query value for each way through the handler
FewQueries ==
    {NoQuery, QueryValue(FALSE, <<>>), QueryValue(TRUE, TxSelectDrop),
     QueryValue(TRUE, TxDrop)}

\* the `connectionId` values clients submit: the oldest key of a full
\* registry, every key a connect call of the window may generate, and the
\* empty string (undefined takes the same branches)
IdInputs ==
    {<<>>, Digits(1)} \cup {Digits(c) : c \in StartClock..(StartClock + MaxTicks)}

\* the oldest key of a full registry, which an empty registry does not hold,
\* and the empty string
FewIds == {<<>>, Digits(1)}

Fields == {"host", "database", "username", "password"}

\* a connect body: which of the four fields hold a truthy value
ConnectBodies == [Fields -> BOOLEAN]

\* the error codes pool.query may reject with ("" is an error without code)
ErrorCodes == {"42P01", "42703", "42601", "42804", "57014", ""}

(***************************************************************************)
(* State.                                                                  *)
(***************************************************************************)
VARIABLES
    connections,  \* the Map of line 16, entries in insertion order
    clock,        \* the reading Date.now() returns
    npools,       \* pools created by `new Pool` in the window
    endCalled,    \* pools on which end() has been called
    closed,       \* pools whose end() has resolved
    reqs,         \* the bag of suspended handlers, each with its locals
    issued,       \* the successful connect calls: the id returned, the pool created
    removed,      \* the identifiers deleted from the Map, and by which handler
    signals,      \* the termination signals delivered so far
    proc,         \* "running", or "crashed" after an unhandled rejection
    out           \* what the latest step did to the response of its request

vars ==
    <<connections, clock, npools, endCalled, closed, reqs, issued, removed, signals,
      proc, out>>

\* the locals of one handler invocation suspended at an await
Request(kind, pc, id, query, pool, oldestKey, oldPool, endOk, held, rival) ==
    [kind |-> kind, pc |-> pc, id |-> id, query |-> query, pool |-> pool,
     oldestKey |-> oldestKey, oldPool |-> oldPool, endOk |-> endOk,
     held |-> held, rival |-> rival, sent |-> NoQuery, ended |-> FALSE]

Suspend(r) == reqs (+) SetToBag({r})

Resume(r) == reqs (-) SetToBag({r})

Suspended == BagToSet(reqs)

InFlight == BagCardinality(reqs)

\* the signals the process handles
Signals == {"SIGTERM", "SIGINT"}

\* connections.entries() is a live iterator: an entry deleted at or before the
\* place a shutdown loop has reached moves the rest of the Map one place up,
\* and the loop goes on with the entry that followed.  held is the place of
\* the entry whose end() the loop awaits.
Reindex(bag, j) ==
    BagOfAll(LAMBDA t : IF t.kind \in Signals /\ t.held >= j
                        THEN [t EXCEPT !.held = @ - 1]
                        ELSE t,
             bag)

\* a response: the status, whether the body is JSON with a success field,
\* and the parts of the body and of the request the properties speak of:
\* id and query are the connectionId and query of the request (id is the
\* connectionId of the body for a connect call), pool is the pool the handler
\* created or looked up, sent is the text it passed to pool.query, echo is
\* the query text of the body, code is the error code of the rejection the
\* handler caught, if any.
Response(kind, status, success, error, id, query, pool, sent, rival) ==
    [kind |-> kind, status |-> status, json |-> TRUE, success |-> success,
     error |-> error, id |-> id, query |-> query, pool |-> pool,
     sent |-> sent, rival |-> rival, echo |-> NoQuery, code |-> "none"]

\* the step wrote no response and ended no handler
NoResponse ==
    [kind |-> "none", status |-> 0, json |-> FALSE, success |-> FALSE,
     error |-> NoError, id |-> <<>>, query |-> NoQuery, pool |-> NoPool,
     sent |-> NoQuery, rival |-> FALSE, echo |-> NoQuery, code |-> "none"]

\* the registry after n connect calls at the readings 1..n, pools 1..n
Registry(n) == [i \in 1..n |-> Entry(Digits(i), i)]

InitWith(registries) ==
    /\ connections \in registries
    /\ clock = StartClock
    /\ npools = 0
    /\ endCalled = {}
    /\ closed = {}
    /\ reqs = EmptyBag
    /\ issued = {}
    /\ removed = {}
    /\ signals = 0
    /\ proc = "running"
    /\ out = NoResponse

\* the process right after start, or later in its life with a full registry
Init == InitWith({Registry(0), Registry(Capacity)})

\* Date.now() advances
Tick ==
    /\ proc = "running"
    /\ clock < StartClock + MaxTicks
    /\ clock' = clock + 1
    /\ out' = NoResponse
    /\ UNCHANGED <<connections, npools, endCalled, closed, reqs, issued, removed, signals, proc>>

(***************************************************************************)
(* POST /api/connect                                                       *)
(***************************************************************************)
\* mutant: the password is not looked at
MissingParamsButPassword(body) == \E f \in Fields \ {"password"} : ~body[f]

\* !host || !database || !username || !password
MissingParams(body) == \E f \in Fields : ~body[f]

\* the pool `new Pool` creates: pools 1..Capacity are those of Registry
NewPool == Capacity + npools + 1

\* lines 30-51: validation, new Pool, and the call of pool.connect()
ConnectRequest(body) ==
    /\ proc = "running"
    /\ IF MissingParams(body)
       THEN /\ out' = Response("connect", 400, FALSE, Msg("Missing required connection parameters"),
                               <<>>, NoQuery, NoPool, NoQuery, FALSE)
            /\ UNCHANGED <<npools, reqs>>
       ELSE /\ InFlight < MaxInFlight
            /\ npools < MaxPools
            /\ npools' = npools + 1
            /\ reqs' = Suspend(Request("connect", "connect", <<>>, NoQuery, NewPool,
                                       <<>>, NoPool, FALSE, 0, FALSE))
            /\ out' = NoResponse
    /\ UNCHANGED <<connections, clock, endCalled, closed, issued, removed, signals, proc>>

\* lines 77-84: the catch block of the connect handler
ConnectCatch(r) ==
    /\ reqs' = Resume(r)
    /\ out' = Response("connect", 500, FALSE, Msg("Failed to connect to database"),
                       <<>>, NoQuery, r.pool, NoQuery, FALSE)

\* line 51: pool.connect() settles; line 52 calls client.query
ConnectAcquire(r) ==
    /\ proc = "running"
    /\ r.kind = "connect" /\ r.pc = "connect"
    /\ \/ /\ reqs' = Suspend([r EXCEPT !.pc = "probe"]) (-) SetToBag({r})
          /\ out' = NoResponse
       \/ ConnectCatch(r)
    /\ UNCHANGED <<connections, clock, npools, endCalled, closed, issued, removed, signals, proc>>

\* lines 67-76: the success response of the connect handler
ConnectRespond(r, connectionId) ==
    /\ reqs' = Reindex(Resume(r), IF r.pc = "evict"
                                  THEN MapIndex(connections, r.oldestKey)
                                  ELSE Len(connections) + 1)
    /\ issued' = issued \cup {Entry(connectionId, r.pool)}
    /\ out' = Response("connect", 200, TRUE, NoError, connectionId, NoQuery,
                       r.pool, NoQuery, FALSE)

\* pg's Pool.end(): the promise of a call on a pool that end() was already
\* called on rejects ("Called end on pool more than once"); any other resolves
EndResolves(p) == p \notin endCalled

\* lines 52-65: the probe settles; the identifier is generated and stored;
\* above capacity, end() is called on the oldest entry's pool
ConnectProbe(r) ==
    /\ proc = "running"
    /\ r.kind = "connect" /\ r.pc = "probe"
    /\ \/ /\ ConnectCatch(r)
          /\ UNCHANGED <<connections, endCalled, issued>>
       \/ LET connectionId == Digits(clock)
              stored == MapSet(connections, connectionId, r.pool)
              oldestKey == MapOldestKey(stored)
              oldPool == MapGet(stored, oldestKey)
          IN  /\ connections' = stored
              /\ IF Len(stored) > Capacity
                 THEN /\ endCalled' = endCalled \cup {oldPool}
                      /\ reqs' = Suspend(Request("connect", "evict", connectionId, NoQuery,
                                                 r.pool, oldestKey, oldPool,
                                                 EndResolves(oldPool), Len(connections),
                                                 FALSE)) (-) SetToBag({r})
                      /\ out' = NoResponse
                      /\ UNCHANGED issued
                 ELSE /\ ConnectRespond(r, connectionId)
                      /\ UNCHANGED endCalled
    /\ UNCHANGED <<clock, npools, closed, removed, signals, proc>>

\* lines 63-76: oldPool.end() settles
ConnectEvict(r) ==
    /\ proc = "running"
    /\ r.kind = "connect" /\ r.pc = "evict"
    /\ IF r.endOk
       THEN /\ closed' = closed \cup {r.oldPool}
            /\ connections' = MapDelete(connections, r.oldestKey)
            /\ removed' = removed \cup Removal(connections, r.oldestKey, "connect")
            /\ ConnectRespond(r, r.id)
       ELSE /\ ConnectCatch(r)
            /\ UNCHANGED <<connections, closed, issued, removed, signals>>
    /\ UNCHANGED <<clock, npools, endCalled, signals, proc>>

(***************************************************************************)
(* POST /api/query                                                         *)
(***************************************************************************)
\* !value of a connectionId or of a query
Falsy(chars, isString) == isString /\ chars = <<>>

\* mutant: the gate is applied before the lookup
QueryDecisionGateFirst(m, connectionId, query) ==
    IF Falsy(connectionId, TRUE) \/ Falsy(query.chars, query.str) THEN "missing"
    ELSE IF ~query.str THEN "throw"
    ELSE IF GateRejects(query.chars) THEN "forbidden"
    ELSE IF MapGet(m, connectionId) = NoPool THEN "invalid"
    ELSE "execute"

\* lines 92-136 in the order of the code: which way the handler goes
QueryDecision(m, connectionId, query) ==
    IF Falsy(connectionId, TRUE) \/ Falsy(query.chars, query.str) THEN "missing"
    ELSE IF MapGet(m, connectionId) = NoPool THEN "invalid"
    ELSE IF ~query.str THEN "throw"      \* query.trim is not a function
    ELSE IF GateRejects(query.chars) THEN "forbidden"
    ELSE "execute"

\* lines 162-182: the message the catch block computes from error.code; the
\* second part stands for error.message
ErrorMessage(code) ==
    CASE code = "42P01" -> <<"Table or relation does not exist: ", code>>
      [] code = "42703" -> <<"Column does not exist: ", code>>
      [] code = "42601" -> <<"Syntax error in SQL query: ", code>>
      [] code = "42804" -> <<"Data type mismatch: ", code>>
      [] OTHER -> <<"", code>>

\* the names the catch block of the query handler can read: its parameter,
\* its own let bindings and those of the enclosing function and module.
\* `connectionId` and `query` are const bindings of the try block (line 90)
\* and are not among them.
QueryCatchScope ==
    {"error", "errorMessage", "errorCode", "req", "res",
     "connections", "app", "express", "Pool", "cors", "path", "PORT"}

\* what becomes of a handler whose promise rejects: express 4 drops the
\* promise, and node either ends the process on the unhandled rejection or
\* only warns, the request staying unanswered; express 5 passes the error to
\* its default error handler, which answers 500 with a body that is no JSON
UncaughtOutcomes == {"crash", "unanswered", "framework"}

\* the handler ended by throwing out of its catch block
Uncaught(r, code, outcome) ==
    /\ proc' = IF outcome = "crash" THEN "crashed" ELSE "running"
    /\ out' = [NoResponse EXCEPT !.kind = "query",
                                 !.status = IF outcome = "framework" THEN 500 ELSE 0,
                                 !.error = <<"ReferenceError", outcome>>,
                                 !.id = r.id, !.query = r.query, !.pool = r.pool,
                                 !.sent = r.sent, !.code = code]

\* lines 158-191: the catch block; r holds the locals of the invocation
QueryCatch(r, code) ==
    IF "query" \in QueryCatchScope
    THEN /\ out' = [Response("query", 400, FALSE, ErrorMessage(code), r.id, r.query,
                             r.pool, r.sent, FALSE)
                       EXCEPT !.code = code, !.echo = r.query]
         /\ UNCHANGED proc
    ELSE \* ReferenceError: query is not defined
         \E outcome \in UncaughtOutcomes : Uncaught(r, code, outcome)

\* mutant: the normalised text is what is executed
ExecutedNormalised(query) == QueryValue(TRUE, trimmedQuery(query.chars))

\* line 139: the argument of pool.query is the `query` of the body
Executed(query) == query

\* pg's Pool.query on a pool that end() was called on rejects ("Cannot use a
\* pool after calling end on the pool"), an error without code
UseAfterEnd(pool) == pool \in endCalled

\* lines 90-139: the handler up to the call of pool.query(query)
QueryRequest(connectionId, query) ==
    /\ proc = "running"
    /\ LET way == QueryDecision(connections, connectionId, query)
           pool == MapGet(connections, connectionId)
           r == Request("query", "gate", connectionId, query, pool,
                        <<>>, NoPool, FALSE, 0, FALSE)
       IN  CASE way = "missing" ->
                  /\ out' = Response("query", 400, FALSE, Msg("Missing connectionId or query"),
                                     connectionId, query, NoPool, NoQuery, FALSE)
                  /\ UNCHANGED <<reqs, proc>>
             [] way = "invalid" ->
                  /\ out' = Response("query", 400, FALSE,
                                     Msg("Invalid connection ID or connection expired"),
                                     connectionId, query, NoPool, NoQuery, FALSE)
                  /\ UNCHANGED <<reqs, proc>>
             [] way = "forbidden" ->
                  /\ out' = Response("query", 403, FALSE,
                                     Msg("Only SELECT queries are allowed for security reasons"),
                                     connectionId, query, pool, NoQuery, FALSE)
                  /\ UNCHANGED <<reqs, proc>>
             [] way = "throw" ->
                  /\ QueryCatch(r, "TypeError")
                  /\ UNCHANGED reqs
             [] way = "execute" ->
                  /\ InFlight < MaxInFlight
                  /\ reqs' = Suspend([r EXCEPT !.pc = "exec", !.sent = Executed(query),
                                                !.ended = UseAfterEnd(pool)])
                  /\ out' = NoResponse
                  /\ UNCHANGED proc
    /\ UNCHANGED <<connections, clock, npools, endCalled, closed, issued, removed, signals>>

\* mutant: a query that fails drops the connection it ran on
QueryFinishExpiring(r) ==
    /\ proc = "running"
    /\ r.kind = "query" /\ r.pc = "exec"
    /\ reqs' = Resume(r)
    /\ connections' = MapDelete(connections, r.id)
    /\ \E code \in ErrorCodes : QueryCatch(r, code)
    /\ UNCHANGED <<clock, npools, endCalled, closed, issued, removed, signals>>

\* lines 139-191: pool.query(query) settles
QueryFinish(r) ==
    /\ proc = "running"
    /\ r.kind = "query" /\ r.pc = "exec"
    /\ reqs' = Resume(r)
    /\ \/ /\ ~r.ended
          /\ out' = [Response("query", 200, TRUE, NoError, r.id, r.query, r.pool,
                              r.sent, FALSE) EXCEPT !.echo = r.query]
          /\ UNCHANGED proc
       \/ \E code \in (IF r.ended THEN {""} ELSE ErrorCodes) : QueryCatch(r, code)
    /\ UNCHANGED <<connections, clock, npools, endCalled, closed, issued, removed, signals>>

(***************************************************************************)
(* POST /api/schema                                                        *)
(***************************************************************************)
\* lines 208-237: the fixed introspection text, by its first words
schemaQuery ==
    QueryValue(TRUE, <<"S","E","L","E","C","T"," ","t",".","t","a","b","l","e","_","n","a","m","e">>)

\* lines 197-239: lookup and the call of pool.query(schemaQuery)
SchemaRequest(connectionId) ==
    /\ proc = "running"
    /\ LET pool == MapGet(connections, connectionId)
       IN  IF pool = NoPool
           THEN /\ out' = Response("schema", 400, FALSE, Msg("Invalid connection ID"),
                                   connectionId, NoQuery, NoPool, NoQuery, FALSE)
                /\ UNCHANGED reqs
           ELSE /\ InFlight < MaxInFlight
                /\ reqs' = Suspend([Request("schema", "exec", connectionId, NoQuery, pool,
                                            <<>>, NoPool, FALSE, 0, FALSE)
                                    EXCEPT !.sent = schemaQuery,
                                           !.ended = UseAfterEnd(pool)])
                /\ out' = NoResponse
    /\ UNCHANGED <<connections, clock, npools, endCalled, closed, issued, removed, signals, proc>>

\* lines 239-267: the introspection query settles
SchemaFinish(r) ==
    /\ proc = "running"
    /\ r.kind = "schema" /\ r.pc = "exec"
    /\ reqs' = Resume(r)
    /\ \/ /\ ~r.ended
          /\ out' = Response("schema", 200, TRUE, NoError, r.id, NoQuery, r.pool, r.sent, FALSE)
       \/ out' = Response("schema", 500, FALSE, Msg("Failed to fetch database schema"),
                          r.id, NoQuery, r.pool, r.sent, FALSE)
    /\ UNCHANGED <<connections, clock, npools, endCalled, closed, issued, removed, signals, proc>>

(***************************************************************************)
(* POST /api/disconnect                                                    *)
(***************************************************************************)
\* a disconnect handler suspended at line 277 for this identifier
Disconnecting(r, connectionId) ==
    r.kind = "disconnect" /\ r.pc = "end" /\ r.id = connectionId

\* lines 273-284: lookup; end() is called on the pool found.  rival notes
\* that another disconnect of the same identifier is suspended at that time.
DisconnectRequest(connectionId) ==
    /\ proc = "running"
    /\ LET pool == MapGet(connections, connectionId)
           rival == \E t \in Suspended : Disconnecting(t, connectionId)
       IN  IF pool = NoPool
           THEN /\ out' = Response("disconnect", 200, TRUE, NoError, connectionId, NoQuery,
                                   NoPool, NoQuery, FALSE)
                /\ UNCHANGED <<reqs, endCalled>>
           ELSE /\ InFlight < MaxInFlight
                /\ endCalled' = endCalled \cup {pool}
                /\ reqs' = Suspend(Request("disconnect", "end", connectionId, NoQuery,
                                           pool, <<>>, NoPool, EndResolves(pool), 0,
                                           rival))
                /\ out' = NoResponse
    /\ UNCHANGED <<connections, clock, npools, closed, issued, removed, signals, proc>>

\* lines 277-292: pool.end() settles
DisconnectFinish(r) ==
    /\ proc = "running"
    /\ r.kind = "disconnect" /\ r.pc = "end"
    /\ reqs' = IF r.endOk
               THEN Reindex(Resume(r), MapIndex(connections, r.id))
               ELSE Resume(r)
    /\ IF r.endOk
       THEN /\ closed' = closed \cup {r.pool}
            /\ connections' = MapDelete(connections, r.id)
            /\ removed' = removed \cup Removal(connections, r.id, "disconnect")
            /\ out' = Response("disconnect", 200, TRUE, NoError, r.id, NoQuery,
                               r.pool, NoQuery, r.rival)
       ELSE /\ out' = Response("disconnect", 500, FALSE, Msg("Error during disconnect"),
                               r.id, NoQuery, r.pool, NoQuery, r.rival)
            /\ UNCHANGED <<connections, closed, removed>>
    /\ UNCHANGED <<clock, npools, endCalled, issued, signals, proc>>

(***************************************************************************)
(* process.on("SIGTERM") and process.on("SIGINT")                          *)
(***************************************************************************)
\* the loop takes the entry at place i: end() is called on its pool and the
\* handler r is suspended at the await
ShutdownClose(r, i) ==
    LET e == connections[i]
    IN  /\ endCalled' = endCalled \cup {e.pool}
        /\ reqs' = Suspend([r EXCEPT !.id = e.id, !.pool = e.pool, !.held = i,
                                     !.endOk = EndResolves(e.pool)]) (-) SetToBag({r})
        /\ UNCHANGED proc

\* process.exit(0)
ShutdownExit(r) ==
    /\ proc' = "exited"
    /\ reqs' = Resume(r)
    /\ UNCHANGED endCalled

\* lines 301-306 and 317-321: the signal arrives; the loop takes the first
\* entry, or the process exits when the Map is empty
Signal(sig) ==
    /\ proc = "running"
    /\ InFlight < MaxInFlight
    /\ signals < MaxSignals
    /\ signals' = signals + 1
    /\ LET r == Request(sig, "close", <<>>, NoQuery, NoPool, <<>>, NoPool, FALSE, 0, FALSE)
       IN  IF connections # <<>>
           THEN ShutdownClose(r, 1)
           ELSE ShutdownExit(r)
    /\ out' = NoResponse
    /\ UNCHANGED <<connections, clock, npools, closed, issued, removed>>

\* lines 305-314 and 319-328: pool.end() settles, resolved or rejected (the
\* rejection is logged); the loop takes the next entry, or the process exits
ShutdownStep(r) ==
    /\ proc = "running"
    /\ r.kind \in Signals /\ r.pc = "close"
    /\ closed' = IF r.endOk THEN closed \cup {r.pool} ELSE closed
    /\ IF r.held < Len(connections)
       THEN ShutdownClose(r, r.held + 1)
       ELSE ShutdownExit(r)
    /\ out' = NoResponse
    /\ UNCHANGED <<connections, clock, npools, issued, removed, signals>>

(***************************************************************************)
(* The server.                                                             *)
(***************************************************************************)
\* the signal handlers
Shutdown ==
    \/ \E sig \in Signals : Signal(sig)
    \/ \E r \in Suspended : ShutdownStep(r)

\* the connect handler
Connect ==
    \/ \E body \in ConnectBodies : ConnectRequest(body)
    \/ \E r \in Suspended : ConnectAcquire(r)
    \/ \E r \in Suspended : ConnectProbe(r)
    \/ \E r \in Suspended : ConnectEvict(r)

\* the query handler, for the identifiers of I and the query values of Q
Query(I, Q) ==
    \/ \E connectionId \in I, query \in Q : QueryRequest(connectionId, query)
    \/ \E r \in Suspended : QueryFinish(r)

\* the schema handler, for the identifiers of I
Schema(I) ==
    \/ \E connectionId \in I : SchemaRequest(connectionId)
    \/ \E r \in Suspended : SchemaFinish(r)

\* the disconnect handler, for the identifiers of I
Disconnect(I) ==
    \/ \E connectionId \in I : DisconnectRequest(connectionId)
    \/ \E r \in Suspended : DisconnectFinish(r)

\* the four request handlers while no termination signal arrives, with one
\* query value for each way through the query handler; query and schema calls
\* name the oldest key of the full registry
Next ==
    \/ Tick
    \/ Connect
    \/ Query(FewIds, FewQueries)
    \/ Schema(FewIds)
    \/ Disconnect(IdInputs)

Spec == Init /\ [][Next]_vars

\* connect calls on a full registry, racing with each other and with
\* disconnect calls for the oldest entry
NextEvict == Tick \/ Connect \/ Disconnect(FewIds)

SpecEvict == InitWith({Registry(Capacity)}) /\ [][NextEvict]_vars

\* connect calls alone, on an empty and on a full registry
NextConnect == Tick \/ Connect

SpecConnect == InitWith({Registry(0), Registry(Capacity)}) /\ [][NextConnect]_vars

\* the identifier the connect calls of one millisecond generate
ClockIds == {Digits(StartClock)}

\* connect, disconnect, query and schema calls that name the identifier the
\* connect calls of one millisecond generate
NextReuse ==
    Connect \/ Disconnect(ClockIds) \/ Query(ClockIds, FewQueries) \/ Schema(ClockIds)

SpecReuse == InitWith({Registry(0), Registry(Capacity)}) /\ [][NextReuse]_vars

\* a termination signal arriving while connect and disconnect calls are handled
NextShutdown == Connect \/ Disconnect(FewIds) \/ Shutdown

SpecShutdown == InitWith({Registry(0), Registry(Capacity)}) /\ [][NextShutdown]_vars

\* query calls with every query value and schema calls, on registries that do
\* and do not hold the identifier, racing with disconnect calls
NextQuery == Query(IdInputs, QueryInputs) \/ Schema(FewIds) \/ Disconnect(IdInputs)

SpecQuery == InitWith({Registry(0), Registry(1)}) /\ [][NextQuery]_vars

(***************************************************************************)
(* Properties.                                                             *)
(***************************************************************************)
\* the response of the latest step is one of the query handler
QueryResponse == out.kind = "query"

\* C1: any two connect calls that both succeed return different
\* identifiers.
C1_DistinctIdentifiers ==
    \A a \in issued, b \in issued : a.id = b.id => a.pool = b.pool

\* C2: a query that the gate passes and the database rejects is answered with
\* status 400 and a JSON body with success false, the error message (remapped
\* for the four known codes, raw otherwise) and the original query text.
C2_RejectionAnswered400 ==
    (QueryResponse /\ out.code \in ErrorCodes) =>
        /\ out.status = 400
        /\ out.json /\ ~out.success
        /\ out.error = ErrorMessage(out.code)
        /\ out.echo = out.query

\* C3: every request ends with a JSON response that carries a success field;
\* no error leaves a handler or ends the process.
C3_EveryRequestAnsweredJson ==
    /\ proc = "running"
    /\ out.kind # "none" => (out.status # 0 /\ out.json)

\* the normalised text the gate looks at, as the claims describe it
Normalised(q) == ToLowerCase(Trim(q.chars))

\* the text starts, after trimming and lower-casing, with select or with
ReadPrefix(q) ==
    /\ q.str
    /\ \/ StartsWith(Normalised(q), <<"s","e","l","e","c","t">>)
       \/ StartsWith(Normalised(q), <<"w","i","t","h">>)

\* the text holds one of the seven blocklisted keywords as a substring
Blocklisted(q) ==
    /\ q.str
    /\ \E k \in {<<"d","r","o","p">>, <<"d","e","l","e","t","e">>,
                 <<"t","r","u","n","c","a","t","e">>, <<"a","l","t","e","r">>,
                 <<"c","r","e","a","t","e">>, <<"i","n","s","e","r","t">>,
                 <<"u","p","d","a","t","e">>} : Includes(Normalised(q), k)

\* C4: a query on a live identifier whose text does not start with select or
\* with and contains a blocklisted keyword is answered 403 and not executed.
C4_BlocklistedForbidden ==
    /\ (QueryResponse /\ MapHas(connections, out.id)
          /\ ~ReadPrefix(out.query) /\ Blocklisted(out.query)) =>
            (out.status = 403 /\ out.json /\ ~out.success /\ out.sent = NoQuery)
    /\ \A r \in Suspended :
          r.kind = "query" => (ReadPrefix(r.query) \/ ~Blocklisted(r.query))

C4_Witness ==
    /\ QueryResponse /\ out.status = 403
    /\ out.query = QueryValue(TRUE, TxUpdate)
    /\ MapHas(connections, out.id)

\* C5: a query whose text starts with select or with is never answered 403,
\* and on a live identifier the submitted text is what is passed to the
\* database: the only answers that come without it having been passed are
\* those for an identifier the registry does not hold.
C5_ReadPrefixAllowed ==
    /\ (QueryResponse /\ ReadPrefix(out.query)) =>
          /\ out.status # 403
          /\ \/ out.sent = out.query
             \/ /\ out.sent = NoQuery
                /\ out.status = 400
                /\ ~MapHas(connections, out.id)
    /\ \A r \in Suspended :
          (r.kind = "query" /\ ReadPrefix(r.query)) => r.sent = r.query

C5_Witness ==
    /\ QueryResponse /\ out.status = 200
    /\ out.query = QueryValue(TRUE, TxSelectDrop)
    /\ out.sent = out.query

\* the latest step is a query call that found no entry for its identifier
UnknownIdQuery ==
    QueryResponse /\ out.pool = NoPool /\ ~MapHas(connections, out.id)

\* C8 as stated: a query on an identifier that the registry does not hold yields
\* the invalid-connection error whatever the query text is, and is not
\* executed.
C8_UnknownIdInvalid ==
    (UnknownIdQuery /\ out.id # <<>>) =>
        /\ out.status = 400 /\ out.json /\ ~out.success
        /\ out.error = Msg("Invalid connection ID or connection expired")
        /\ out.sent = NoQuery

\* C8 amended: a query on an identifier the registry does not hold is
\* answered 400 and never executed, and no error leaves the handler; the error
\* is the invalid-connection error when identifier and query are both
\* non-empty, and the missing-parameter error when either is empty.
C8_UnknownIdAnswered400 ==
    /\ UnknownIdQuery =>
          /\ out.status = 400 /\ out.json /\ ~out.success
          /\ out.sent = NoQuery
          /\ out.error =
                IF out.id = <<>> \/ out.query = NoQuery
                THEN Msg("Missing connectionId or query")
                ELSE Msg("Invalid connection ID or connection expired")
    /\ \A r \in Suspended : r.kind = "query" => r.pool # NoPool

C8_Witness ==
    /\ UnknownIdQuery
    /\ out.query = QueryValue(TRUE, TxDrop)
    /\ out.error = Msg("Invalid connection ID or connection expired")

\* a connect call suspended at line 63 whose insertion found the registry
\* holding Capacity entries
EvictingAtCapacity(r) == r.kind = "connect" /\ r.pc = "evict" /\ r.held = Capacity

\* the insertion of a connect call into a registry of Capacity entries
\* appends the new entry and picks the entry that was first
InsertionPicksOldest(r) ==
    (ConnectProbe(r) /\ Len(connections) = Capacity /\ Len(connections') > Capacity) =>
        \E e \in BagToSet(reqs') :
            /\ EvictingAtCapacity(e) /\ e.pool = r.pool
            /\ connections' = Append(connections, Entry(e.id, r.pool))
            /\ e.oldestKey = connections[1].id
            /\ e.oldPool = connections[1].pool
            /\ e.oldPool \in endCalled'

\* the end of that call removes the entry picked, and nothing else, its pool
\* being closed, and answers with the new identifier
EvictionRemovesOldest(r) ==
    /\ MapGet(connections, r.oldestKey) = r.oldPool
    /\ connections' = MapDelete(connections, r.oldestKey)
    /\ Len(connections') = Len(connections) - 1
    /\ r.oldPool \in closed'
    /\ r.id # r.oldestKey
    /\ out'.kind = "connect" /\ out'.status = 200 /\ out'.id = r.id

C7_MissingFieldRejected ==
    [][\A body \in ConnectBodies :
          ((\E f \in {"host", "database", "username", "password"} : ~body[f])
              /\ ConnectRequest(body)) =>
            /\ out'.kind = "connect" /\ out'.status = 400
            /\ out'.json /\ ~out'.success
            /\ out'.error = Msg("Missing required connection parameters")
            /\ UNCHANGED <<connections, npools, reqs, endCalled, closed>>]_vars

C7_Witness ==
    /\ out.kind = "connect" /\ out.status = 400
    /\ Len(connections) = Capacity

\* C9: a disconnect for an identifier the registry does not hold reports
\* success, and so does each of two disconnect calls for the same live
\* identifier that are handled concurrently.
C9_DisconnectSucceeds ==
    (out.kind = "disconnect" /\ (out.pool = NoPool \/ out.rival)) =>
        (out.status = 200 /\ out.success)

\* C10: when a connect call answers with success and an identifier, the
\* registry maps that identifier to the pool the call created.
C10_ReturnedIdResolves ==
    (out.kind = "connect" /\ out.status = 200) =>
        MapGet(connections, out.id) = out.pool

\* the identifiers that have been deleted from the registry
RemovedIds == {x.id : x \in removed}

\* C11: an identifier that was removed from the registry, by disconnect or by
\* eviction, is never stored again by a later connect call.
C11_RemovedNeverStoredAgain ==
    \A k \in RemovedIds : ~MapHas(connections, k)

\* a connect handler is between its entry and its response
ConnectInFlight == \E r \in Suspended : r.kind = "connect"

\* C14: whenever no connect request is in flight, the registry holds at most
\* Capacity entries.
C14_CapacityWhenQuiet ==
    ~ConnectInFlight => Len(connections) <= Capacity

\* C17: pool.end is invoked at most once on each pool: no handler is waiting
\* for an end() that it called on a pool end() had been called on before.
C17_EndCalledOnce ==
    \A r \in Suspended : r.pc \in {"end", "evict"} => r.endOk

\* the pools created by connect calls
CreatedPools == (Capacity + 1)..(Capacity + npools)

\* the pools the registry holds
HeldPools == {connections[i].pool : i \in 1..Len(connections)}

\* C19: whenever no request is in flight, every pool a connect call created
\* is held in the registry or has been closed.
C19_NoPoolLeaked ==
    reqs = EmptyBag => CreatedPools \subseteq (HeldPools \cup closed)

\* C20: a connect call that answers 500 has added nothing to the registry:
\* the pool it created is not held.
C20_FailedConnectStoresNothing ==
    (out.kind = "connect" /\ out.status = 500) => out.pool \notin HeldPools

\* the gate, as the claims describe it, classifies the text REJECTED
Rejected(q) == ~ReadPrefix(q) /\ Blocklisted(q)

\* C15: the query handler passes a text to the database only if the gate
\* allowed it, and the text passed is the submitted string itself, not its
\* normalised form; a rejected text is never passed.
C15_GateBeforeExecution ==
    /\ \A r \in Suspended :
          (r.kind = "query" /\ r.pc = "exec") =>
              (r.query.str /\ ~Rejected(r.query) /\ r.sent = r.query)
    /\ (QueryResponse /\ out.sent # NoQuery) =>
          (~Rejected(out.query) /\ out.sent = out.query)
    /\ (QueryResponse /\ Rejected(out.query)) => out.sent = NoQuery

C15_Witness ==
    /\ QueryResponse /\ out.status = 200
    /\ out.query = QueryValue(TRUE, TxSelect)
    /\ out.sent = out.query
    /\ Normalised(out.query) # out.query.chars

\* C18: a query or schema request never starts executing on a pool that
\* end() has been called on.
C18_NoUseAfterEnd ==
    \A r \in Suspended : r.pc = "exec" => ~r.ended

\* the step is one of the query handler or of the schema handler
ReadStep ==
    \/ \E connectionId \in IdInputs, query \in QueryInputs :
          QueryRequest(connectionId, query)
    \/ \E r \in Suspended : QueryFinish(r)
    \/ \E connectionId \in IdInputs : SchemaRequest(connectionId)
    \/ \E r \in Suspended : SchemaFinish(r)

\* C16: no step of the query handler or of the schema handler changes the
\* registry, whatever the outcome of the request: a step that changes the
\* registry is a step of neither.
C16_ReadsKeepRegistry ==
    [][connections' # connections => ~ReadStep]_vars

C16_Witness ==
    /\ out.kind = "schema" /\ out.status = 500
    /\ MapGet(connections, out.id) = out.pool
    /\ out.pool # NoPool

\* C13: when the shutdown procedure ends with process exit, a close has been
\* attempted on every handle the registry holds, whether or not an earlier
\* close failed.
C13_ShutdownClosesAll ==
    proc = "exited" => HeldPools \subseteq endCalled

\* the identifiers a disconnect call removed from the registry
DisconnectedIds == {x.id : x \in {y \in removed : y.by = "disconnect"}}

\* C12: when a disconnect call reports success the pool its identifier
\* referred to is closed and the identifier is gone, and a query or schema
\* call that later names the identifier gets the invalid-connection error.
C12_DisconnectedStaysGone ==
    [][/\ \A r \in Suspended :
             (DisconnectFinish(r) /\ out'.status = 200) =>
                 (r.pool \in closed' /\ ~MapHas(connections', r.id))
       /\ \A connectionId \in DisconnectedIds :
             /\ \A query \in FewQueries \ {NoQuery} :
                   QueryRequest(connectionId, query) =>
                       /\ out'.status = 400
                       /\ out'.error = Msg("Invalid connection ID or connection expired")
             /\ SchemaRequest(connectionId) =>
                   /\ out'.status = 400
                   /\ out'.error = Msg("Invalid connection ID")]_vars

====
